---- MODULE Spec2Model ----
(***************************************************************************)
(* Othebot: the Othello board, the legal-move scan, the Game state machine *)
(* (legal_moves / make_turn / render / player_name) and the algebraic      *)
(* coordinate parser of src/lib.rs.                                        *)
(*                                                                         *)
(* A u64 bitfield is modelled by the set of its set bits (a subset of      *)
(* 0..63): `bitfield |= 1 << idx` adds idx, `mask & (1 << idx) == 0` is    *)
(* idx \notin mask.  Option<u64> is a record [some, val].  A Result is a   *)
(* record [kind, val] with kind "Ok", "Err" or "panic".                    *)
(*                                                                         *)
(* op and ret record the last call and what it returned.  nmoves counts    *)
(* the accepted moves, nwrites the direct writes, and seen is the history  *)
(* of the (board, turn) pairs the game has been in after Game::new and     *)
(* after each accepted move.                                               *)
(***************************************************************************)
EXTENDS Integers, Sequences, FiniteSets

VARIABLES discs, white_player, black_player, turn, current_legal_moves,
          op, ret, nmoves, nwrites, seen

vars == <<discs, white_player, black_player, turn, current_legal_moves,
          op, ret, nmoves, nwrites, seen>>

game == <<discs, white_player, black_player, turn, current_legal_moves>>

(***************************************************************************)
(* Bounds of the exploration.                                              *)
(***************************************************************************)
\* accepted moves explored from Game::new
MaxMoves == 4

\* direct Board::change_disc writes explored from Board::new
MaxWrites == 2

\* longest input string given to algebric2xy
MaxLen == 3

(***************************************************************************)
(* Values.                                                                 *)
(***************************************************************************)
White == "White"

Black == "Black"

Empty == "Empty"

Disc == {White, Black, Empty}

None == [some |-> FALSE, val |-> {}]

Some(mask) == [some |-> TRUE, val |-> mask]

Ok(v) == [kind |-> "Ok", val |-> v]

Err(e) == [kind |-> "Err", val |-> e]

Panic(msg) == [kind |-> "panic", val |-> msg]

IllegalMove == "IllegalMove"

LegalMovesNotComputed == "LegalMovesNotComputed"

Unit == "()"

Call(name, arg) == [name |-> name, arg |-> arg]

(***************************************************************************)
(* impl Not for Disc                                                       *)
(***************************************************************************)
Disc_not_stuck(d) == IF d = White THEN Black ELSE d

Disc_not_empty(d) == IF d = White THEN Black ELSE Empty

Disc_not(d) ==
    CASE d = White -> Black
      [] d = Black -> White
      [] d = Empty -> Empty

(***************************************************************************)
(* Board                                                                   *)
(***************************************************************************)
Board_new_swapped ==
    [i \in 0..63 |->
        CASE i = 27 -> Black
          [] i = 28 -> White
          [] i = 35 -> White
          [] i = 36 -> Black
          [] OTHER  -> Empty]

Board_new ==
    [i \in 0..63 |->
        CASE i = 27 -> White
          [] i = 28 -> Black
          [] i = 35 -> Black
          [] i = 36 -> White
          [] OTHER  -> Empty]

\* the index expression of get_disc_unchecked, (row * 8 + col) as usize
get_disc_unchecked_swapped(b, col, row) == b[col * 8 + row]

get_disc_unchecked(b, col, row) == b[row * 8 + col]

Board_get_disc(b, mov) ==
    LET col == mov[1]
        row == mov[2]
    IN  IF ~(col < 8) THEN Panic("assertion failed: col < 8")
        ELSE IF ~(row < 8) THEN Panic("assertion failed: row < 8")
        ELSE Ok(get_disc_unchecked(b, col, row))

\* the index written by change_disc, (row * 8 + col) as usize
change_disc_idx_swapped(col, row) == col * 8 + row

change_disc_idx(col, row) == row * 8 + col

\* change_disc: Panic when an assertion fails, else Ok(the new discs array)
Board_change_disc(b, mov, disc) ==
    LET col == mov[1]
        row == mov[2]
    IN  IF ~(col < 8) THEN Panic("assertion failed: col < 8")
        ELSE IF ~(row < 8) THEN Panic("assertion failed: row < 8")
        ELSE Ok([b EXCEPT ![change_disc_idx(col, row)] = disc])

RECURSIVE CountFrom(_, _, _)
\* the loop of Board::scores from cell i on, counting the discs equal to d
CountFrom(b, d, i) ==
    IF i > 63 THEN 0
    ELSE (IF b[i] = d THEN 1 ELSE 0) + CountFrom(b, d, i + 1)

Board_scores_swapped(b) == <<CountFrom(b, Black, 0), CountFrom(b, White, 0)>>

Board_scores(b) == <<CountFrom(b, White, 0), CountFrom(b, Black, 0)>>

directions_diagonal_twice ==
    << <<-1, -1>>,
       <<0, -1>>,
       <<1, -1>>,
       <<-1, 0>>,
       <<1, 0>>,
       <<-1, 1>>,
       <<-1, 1>>,
       <<1, 1>> >>

directions ==
    << <<-1, -1>>,
       <<0, -1>>,
       <<1, -1>>,
       <<-1, 0>>,
       <<1, 0>>,
       <<-1, 1>>,
       <<0, -1>>,
       <<1, 1>> >>

RECURSIVE walk(_, _, _, _, _, _, _)
\* the while loop of Board::legal_moves at (nx, ny) going (dx, dy):
\* TRUE iff the loop executes `bitfield |= 1 << idx`
walk(b, player, nx, ny, dx, dy, captured) ==
    IF ~(nx >= 0 /\ nx < 8 /\ ny >= 0 /\ ny < 8) THEN FALSE
    ELSE LET n_idx == ny * 8 + nx
         IN  IF b[n_idx] = Empty THEN FALSE
             ELSE IF b[n_idx] = player THEN captured
             ELSE walk(b, player, nx + dx, ny + dy, dx, dy, TRUE)

\* the `continue` of the scan: a filled cell is skipped
scanned_any(b, idx) == TRUE

scanned(b, idx) == b[idx] = Empty

\* the bitfield built by the three nested loops, for player /= Empty
scan(b, player) ==
    { idx \in 0..63 :
        /\ scanned(b, idx)
        /\ \E k \in 1..Len(directions) :
              walk(b, player,
                   (idx % 8) + directions[k][1], (idx \div 8) + directions[k][2],
                   directions[k][1], directions[k][2], FALSE) }

Board_legal_moves(b, player) ==
    IF player = Empty THEN Panic("The player should not be an empty disc.")
    ELSE Ok(scan(b, player))

(***************************************************************************)
(* algebric2xy.  A &str is the sequence of its chars (Unicode scalar       *)
(* values); str::len() is the length of its UTF-8 encoding in bytes.       *)
(***************************************************************************)
len_utf8(c) ==
    IF c < 128 THEN 1
    ELSE IF c < 2048 THEN 2
    ELSE IF c < 65536 THEN 3
    ELSE 4

RECURSIVE str_len(_)
str_len(pos) ==
    IF pos = <<>> THEN 0 ELSE len_utf8(Head(pos)) + str_len(Tail(pos))

\* `c as u8` truncates the scalar value to its low 8 bits
as_u8(c) == c % 256

algebric2xy(pos) ==
    IF str_len(pos) # 2 THEN Err(IllegalMove)
    ELSE IF Len(pos) < 2
         THEN Panic("called Option::unwrap() on a None value")
    ELSE LET col == as_u8(pos[1])
             row == as_u8(pos[2])
         IN  IF ~(col >= 97 /\ col <= 104) THEN Err(IllegalMove)
             ELSE IF ~(row >= 49 /\ row <= 56) THEN Err(IllegalMove)
             ELSE Ok(<<col - 97, row - 49>>)

(***************************************************************************)
(* Game                                                                    *)
(***************************************************************************)
NoCall == [kind |-> "none", val |-> Unit]

Game_new ==
    /\ discs = Board_new
    /\ white_player = "white"
    /\ black_player = "black"
    /\ turn = Black
    /\ current_legal_moves = None
    /\ op = Call("Game::new", <<>>)
    /\ ret = NoCall
    /\ nmoves = 0
    /\ nwrites = 0
    /\ seen = {<<Board_new, Black>>}

\* `let idx = (row * 8 + col) as u64` with mov @ (row, col), before the u8
\* arithmetic is reduced to 8 bits
make_turn_idx(mov) ==
    LET row == mov[1]
        col == mov[2]
    IN  row * 8 + col

\* `let Some(legal_moves) = self.current_legal_moves else { return Err }`
cache_absent_never(clm) == FALSE

cache_absent(clm) == ~clm.some

\* `self.current_legal_moves = None`, the last assignment of make_turn
invalidated_kept == current_legal_moves

invalidated == None

\* Game::make_turn.  checked: the build has overflow checks on (debug
\* profile), where u8 overflow and an over-wide shift panic; with them off
\* (release profile) the u8 arithmetic wraps and the shift amount is masked.
Game_make_turn(mov, checked) ==
    /\ ret.kind # "panic"
    /\ nmoves < MaxMoves
    /\ op' = Call("make_turn", mov)
    /\ UNCHANGED <<white_player, black_player, nwrites>>
    /\ LET wide == make_turn_idx(mov)
           idx  == wide % 256
       IN  IF checked /\ (mov[1] * 8 > 255 \/ wide > 255)
           THEN /\ ret' = Panic("attempt to multiply or add with overflow")
                /\ UNCHANGED <<discs, turn, current_legal_moves, nmoves, seen>>
           ELSE IF cache_absent(current_legal_moves)
           THEN /\ ret' = Err(LegalMovesNotComputed)
                /\ UNCHANGED <<discs, turn, current_legal_moves, nmoves, seen>>
           ELSE IF checked /\ idx >= 64
           THEN /\ ret' = Panic("attempt to shift left with overflow")
                /\ UNCHANGED <<discs, turn, current_legal_moves, nmoves, seen>>
           ELSE IF (idx % 64) \notin current_legal_moves.val
           THEN /\ ret' = Err(IllegalMove)
                /\ UNCHANGED <<discs, turn, current_legal_moves, nmoves, seen>>
           ELSE LET w == Board_change_disc(discs, mov, turn)
                IN  IF w.kind = "panic"
                    THEN /\ ret' = w
                         /\ UNCHANGED <<discs, turn, current_legal_moves, nmoves, seen>>
                    ELSE /\ discs' = w.val
                         /\ turn' = Disc_not(turn)
                         /\ current_legal_moves' = invalidated
                         /\ nmoves' = nmoves + 1
                         /\ seen' = seen \cup {<<discs', turn'>>}
                         /\ ret' = Ok(Unit)

Game_player_name ==
    /\ ret.kind # "panic"
    /\ op' = Call("player_name", <<>>)
    /\ ret' = CASE turn = White -> Ok(white_player)
                [] turn = Black -> Ok(black_player)
                [] turn = Empty -> Panic("internal error: entered unreachable code")
    /\ UNCHANGED <<game, nmoves, nwrites, seen>>

\* what render prints: the glyph of each of the 64 cells, and the score line
rendered(b, legal_moves) ==
    [cells  |-> [idx \in 0..63 |->
                    CASE b[idx] = White -> "W"
                      [] b[idx] = Black -> "B"
                      [] b[idx] = Empty /\ idx \in legal_moves -> "*"
                      [] OTHER -> " "],
     scores |-> <<black_player, Board_scores(b)[2],
                  white_player, Board_scores(b)[1]>>]

Game_render_clearing ==
    /\ ret.kind # "panic"
    /\ op' = Call("render", <<>>)
    /\ ret' = IF cache_absent(current_legal_moves)
              THEN Err(LegalMovesNotComputed)
              ELSE Ok(rendered(discs, current_legal_moves.val))
    /\ current_legal_moves' = None
    /\ UNCHANGED <<discs, white_player, black_player, turn, nmoves, nwrites, seen>>

Game_render ==
    /\ ret.kind # "panic"
    /\ op' = Call("render", <<>>)
    /\ ret' = IF cache_absent(current_legal_moves)
              THEN Err(LegalMovesNotComputed)
              ELSE Ok(rendered(discs, current_legal_moves.val))
    /\ UNCHANGED <<game, nmoves, nwrites, seen>>

Game_legal_moves_flip ==
    /\ ret.kind # "panic"
    /\ op' = Call("legal_moves", <<>>)
    /\ LET m == Board_legal_moves(discs, turn)
       IN  IF m.kind = "panic"
           THEN /\ ret' = m
                /\ UNCHANGED current_legal_moves
           ELSE /\ ret' = Ok(Unit)
                /\ current_legal_moves' =
                      IF current_legal_moves.some
                      THEN Some(Board_legal_moves(discs, Disc_not(turn)).val)
                      ELSE Some(m.val)
    /\ UNCHANGED <<discs, white_player, black_player, turn, nmoves, nwrites, seen>>

Game_legal_moves ==
    /\ ret.kind # "panic"
    /\ op' = Call("legal_moves", <<>>)
    /\ LET m == Board_legal_moves(discs, turn)
       IN  IF m.kind = "panic"
           THEN /\ ret' = m
                /\ UNCHANGED current_legal_moves
           ELSE /\ ret' = Ok(Unit)
                /\ current_legal_moves' = Some(m.val)
    /\ UNCHANGED <<discs, white_player, black_player, turn, nmoves, nwrites, seen>>

(***************************************************************************)
(* The game: Game::new, then any sequence of calls on the Game.            *)
(***************************************************************************)
\* u8 pairs outside the board given to make_turn
OutOfRangeMoves == {<<0, 26>>, <<3, 8>>, <<8, 0>>, <<32, 0>>, <<255, 255>>}

Moves == ((0..7) \X (0..7)) \cup OutOfRangeMoves

Init == Game_new

Next ==
    \/ \E mov \in Moves, checked \in BOOLEAN : Game_make_turn(mov, checked)
    \/ Game_legal_moves
    \/ Game_render
    \/ Game_player_name

Spec == Init /\ [][Next]_vars

(***************************************************************************)
(* The board alone: Board::new, then direct calls on the Board.            *)
(***************************************************************************)
\* cells (col, row) written directly: the four diagonal neighbours of the
\* centre block, an arm from the block to the top edge, and cells next to it
ProbeCells ==
    {<<2, 2>>, <<5, 5>>, <<5, 2>>, <<2, 5>>,
     <<3, 0>>, <<3, 1>>, <<3, 2>>,
     <<2, 3>>, <<4, 2>>, <<4, 5>>}

InitBoard ==
    /\ discs = Board_new
    /\ white_player = "white"
    /\ black_player = "black"
    /\ turn = Black
    /\ current_legal_moves = None
    /\ op = Call("Board::new", <<>>)
    /\ ret = NoCall
    /\ nmoves = 0
    /\ nwrites = 0
    /\ seen = {<<Board_new, Black>>}

Board_change_disc_call(mov, disc) ==
    /\ ret.kind # "panic"
    /\ nwrites < MaxWrites
    /\ op' = Call("Board::change_disc", <<mov, disc>>)
    /\ LET w == Board_change_disc(discs, mov, disc)
       IN  IF w.kind = "panic"
           THEN ret' = w /\ UNCHANGED discs
           ELSE ret' = Ok(Unit) /\ discs' = w.val
    /\ nwrites' = nwrites + 1
    /\ UNCHANGED <<white_player, black_player, turn, current_legal_moves, nmoves, seen>>

Board_get_disc_call(mov) ==
    /\ ret.kind # "panic"
    /\ op' = Call("Board::get_disc", <<mov>>)
    /\ ret' = Board_get_disc(discs, mov)
    /\ UNCHANGED <<game, nmoves, nwrites, seen>>

Board_scores_call ==
    /\ ret.kind # "panic"
    /\ op' = Call("Board::scores", <<>>)
    /\ ret' = Ok(Board_scores(discs))
    /\ UNCHANGED <<game, nmoves, nwrites, seen>>

Board_legal_moves_call(player) ==
    /\ ret.kind # "panic"
    /\ op' = Call("Board::legal_moves", <<player>>)
    /\ ret' = Board_legal_moves(discs, player)
    /\ UNCHANGED <<game, nmoves, nwrites, seen>>

NextBoard ==
    \/ \E mov \in ProbeCells \cup {<<8, 0>>, <<0, 8>>}, disc \in Disc :
          Board_change_disc_call(mov, disc)
    \/ \E mov \in ProbeCells \cup {<<8, 0>>, <<0, 8>>} : Board_get_disc_call(mov)
    \/ Board_scores_call
    \/ \E player \in Disc : Board_legal_moves_call(player)

SpecBoard == InitBoard /\ [][NextBoard]_vars

(***************************************************************************)
(* The parser alone: an input string, then algebric2xy on it.              *)
(***************************************************************************)
\* 'a' 'h' 'i' '`' '1' '8' '9' '0', U+00E9 and U+0161 (two bytes each in
\* UTF-8; the low byte of U+0161 is 'a')
Chars == {97, 104, 105, 96, 49, 56, 57, 48, 233, 353}

Strings == UNION {[1..n -> Chars] : n \in 0..MaxLen}

InitParse ==
    /\ discs = Board_new
    /\ white_player = "white"
    /\ black_player = "black"
    /\ turn = Black
    /\ current_legal_moves = None
    /\ op \in {Call("input", pos) : pos \in Strings}
    /\ ret = NoCall
    /\ nmoves = 0
    /\ nwrites = 0
    /\ seen = {<<Board_new, Black>>}

algebric2xy_call ==
    /\ op.name = "input"
    /\ op' = Call("algebric2xy", op.arg)
    /\ ret' = algebric2xy(op.arg)
    /\ UNCHANGED <<game, nmoves, nwrites, seen>>

NextParse == algebric2xy_call

SpecParse == InitParse /\ [][NextParse]_vars

(***************************************************************************)
(* Properties.  The rule of the game is stated here on its own, without    *)
(* the operators that model the code.                                      *)
(***************************************************************************)
InRange == (0..7) \X (0..7)

Opponent(d) == IF d = White THEN Black ELSE White

Compass ==
    {<<-1, -1>>, <<0, -1>>, <<1, -1>>, <<-1, 0>>,
     <<1, 0>>, <<-1, 1>>, <<0, 1>>, <<1, 1>>}

OnBoard(x, y) == x \in 0..7 /\ y \in 0..7

\* from cell i in direction d: n >= 1 opponent discs, then a disc of player
CaptureLine(b, player, i, d) ==
    LET x == i % 8
        y == i \div 8
    IN  \E n \in 1..6 :
           /\ \A k \in 1..n :
                 /\ OnBoard(x + k * d[1], y + k * d[2])
                 /\ b[(y + k * d[2]) * 8 + (x + k * d[1])] = Opponent(player)
           /\ OnBoard(x + (n + 1) * d[1], y + (n + 1) * d[2])
           /\ b[(y + (n + 1) * d[2]) * 8 + (x + (n + 1) * d[1])] = player

Legal(b, player) ==
    {i \in 0..63 : b[i] = Empty /\ \E d \in Compass : CaptureLine(b, player, i, d)}

Accepted == op.name = "make_turn" /\ ret.kind = "Ok"

\* C1: Board::legal_moves(player) sets bit i iff cell i is Empty and some one
\* of the eight compass directions holds a run of opponent discs closed by a
\* disc of the player.
C1_AllEightDirections ==
    (op.name = "Board::legal_moves" /\ ret.kind = "Ok")
        => ret.val = Legal(discs, op.arg[1])

\* C2: on the starting board with Black to move the cached mask is exactly
\* the four cells d3, c4, f5, e6 (19, 26, 37, 44).
C2_OpeningMask ==
    (nmoves = 0 /\ current_legal_moves.some)
        => current_legal_moves.val = {19, 26, 37, 44}

\* C3: with the cache computed, make_turn((col,row)) on a cell row*8+col whose
\* bit is unset in the mask fails with IllegalMove and leaves board and turn.
C3_UnsetBitRejected ==
    [][ ( /\ current_legal_moves.some
          /\ op'.name = "make_turn"
          /\ op'.arg \in InRange
          /\ (op'.arg[2] * 8 + op'.arg[1]) \notin current_legal_moves.val )
        => ( /\ ret'.kind = "Err"
             /\ ret'.val = IllegalMove
             /\ discs' = discs
             /\ turn' = turn ) ]_vars

\* C4: an accepted move hands the turn to the opponent and empties the cache;
\* nothing else changes the turn, so the turn alternates Black, White, ...
\* with the accepted moves.
C4_TurnAlternates ==
    /\ [](turn = IF nmoves % 2 = 0 THEN Black ELSE White)
    /\ [][ IF op'.name = "make_turn" /\ ret'.kind = "Ok"
           THEN turn' = Opponent(turn) /\ current_legal_moves' = None
           ELSE turn' = turn ]_vars

C4_Witness ==
    Accepted /\ nmoves = 2 /\ turn = Black /\ ~current_legal_moves.some

\* C5: while the cache is None, make_turn (in-range) and render fail with
\* LegalMovesNotComputed and change nothing; the cache is None after an
\* accepted move and only Game::legal_moves fills it, so no two moves are
\* accepted without a legal_moves call between them.
C5_NoCacheNoMove ==
    [][ /\ ( /\ ~current_legal_moves.some
             /\ \/ op'.name = "make_turn" /\ op'.arg \in InRange
                \/ op'.name = "render" )
           => ( /\ ret'.kind = "Err"
                /\ ret'.val = LegalMovesNotComputed
                /\ UNCHANGED <<discs, turn, current_legal_moves>> )
        /\ (op'.name = "make_turn" /\ ret'.kind = "Ok")
           => (current_legal_moves.some /\ ~current_legal_moves'.some)
        /\ (~current_legal_moves.some /\ current_legal_moves'.some)
           => op'.name = "legal_moves" ]_vars

C5_Witness ==
    /\ nmoves >= 1
    /\ ~current_legal_moves.some
    /\ op.name = "make_turn"
    /\ op.arg \in InRange
    /\ ret.kind = "Err"
    /\ ret.val = LegalMovesNotComputed

\* C6: an accepted make_turn((col,row)) leaves the mover's disc in cell
\* row*8+col and every other cell as it was (nothing is flipped).
C6_OnlyTargetWritten ==
    [][ (op'.name = "make_turn" /\ ret'.kind = "Ok")
        => \A i \in 0..63 :
              discs'[i] = IF i = op'.arg[2] * 8 + op'.arg[1]
                          THEN turn ELSE discs[i] ]_vars

C6_Witness ==
    /\ Accepted
    /\ op.arg = <<3, 2>>
    /\ discs[19] = Black
    /\ discs[27] = White
    /\ discs[35] = Black

\* C7: turn is White or Black in every state reachable through Game, so
\* neither Board::legal_moves nor Game::player_name panics.
C7_TurnNeverEmpty ==
    /\ turn \in {White, Black}
    /\ op.name \in {"legal_moves", "player_name"} => ret.kind = "Ok"

C7_Witness ==
    /\ nmoves >= 1
    /\ op.name = "player_name"
    /\ ret.kind = "Ok"
    /\ ret.val = white_player

\* C8: every bit set by Board::legal_moves is the bit of an Empty cell.
C8_OnlyEmptyCells ==
    (op.name = "Board::legal_moves" /\ ret.kind = "Ok")
        => \A i \in ret.val : discs[i] = Empty

\* a filled cell stands at the head of a capture line, and is not marked
C8_Witness ==
    /\ op.name = "Board::legal_moves"
    /\ ret.kind = "Ok"
    /\ ret.val # {}
    /\ \E i \in 0..63 :
          /\ discs[i] # Empty
          /\ CaptureLine(discs, op.arg[1], i, <<1, 0>>)
          /\ i \notin ret.val

\* C9: algebric2xy returns Ok((c,r)) exactly for two characters 'a'..'h' and
\* '1'..'8', and Err(IllegalMove) for every other string, without panicking.
C9_ParseTotal ==
    op.name = "algebric2xy"
        => IF Len(op.arg) = 2 /\ op.arg[1] \in 97..104 /\ op.arg[2] \in 49..56
           THEN ret.kind = "Ok" /\ ret.val = <<op.arg[1] - 97, op.arg[2] - 49>>
           ELSE ret.kind = "Err" /\ ret.val = IllegalMove

\* C10: Game::legal_moves always succeeds, stores the mask of the current
\* board and turn in the cache, changes nothing else, and a second call in a
\* row changes nothing at all.
C10_ComputeIdempotent ==
    [][ op'.name = "legal_moves"
        => /\ ret'.kind = "Ok"
           /\ current_legal_moves' = Some(scan(discs, turn))
           /\ UNCHANGED <<discs, turn, white_player, black_player>>
           /\ op.name = "legal_moves" => current_legal_moves' = current_legal_moves
      ]_vars

C10_Witness ==
    /\ op.name = "legal_moves"
    /\ ret.kind = "Ok"
    /\ nmoves >= 1
    /\ current_legal_moves = Some(scan(discs, turn))
    /\ current_legal_moves.val # {}

\* C11: Game::new gives Black the turn, an empty cache, and the board whose
\* only discs are (3,3)=White, (4,3)=Black, (3,4)=Black, (4,4)=White.
C11_StartingState ==
    op.name = "Game::new"
        => /\ turn = Black
           /\ current_legal_moves = None
           /\ discs[3 * 8 + 3] = White
           /\ discs[3 * 8 + 4] = Black
           /\ discs[4 * 8 + 3] = Black
           /\ discs[4 * 8 + 4] = White
           /\ \A i \in (0..63) \ {27, 28, 35, 36} : discs[i] = Empty
           /\ Cardinality({i \in 0..63 : discs[i] = White}) = 2
           /\ Cardinality({i \in 0..63 : discs[i] = Black}) = 2
           /\ Cardinality({i \in 0..63 : discs[i] = Empty}) = 60

C11_Witness ==
    op.name = "Game::new" /\ ret = NoCall /\ nmoves = 0 /\ discs[27] = White

\* C12: Board::scores returns (number of White cells, number of Black
\* cells); with the Empty cells they add up to 64; the starting board
\* scores (2,2).
C12_ScoresCount ==
    op.name = "Board::scores"
        => /\ ret.kind = "Ok"
           /\ ret.val[1] = Cardinality({i \in 0..63 : discs[i] = White})
           /\ ret.val[2] = Cardinality({i \in 0..63 : discs[i] = Black})
           /\ ret.val[1] + ret.val[2]
                 + Cardinality({i \in 0..63 : discs[i] = Empty}) = 64
           /\ nwrites = 0 => ret.val = <<2, 2>>

C12_Witness ==
    /\ op.name = "Board::scores"
    /\ nwrites = 2
    /\ ret.val[1] > ret.val[2]
    /\ ret.val[2] >= 1

C14_MarkedCellPlayable ==
    [][ ( /\ current_legal_moves.some
          /\ op'.name = "make_turn"
          /\ op'.arg \in InRange
          /\ (op'.arg[2] * 8 + op'.arg[1]) \in current_legal_moves.val )
        => ( /\ ret'.kind = "Ok"
             /\ discs'[op'.arg[2] * 8 + op'.arg[1]] = turn ) ]_vars


Diagonals == {<<-1, -1>>, <<1, -1>>, <<-1, 1>>, <<1, 1>>}

Orthogonals == Compass \ Diagonals

\* how many entries of the direction table are d
Checks(d) == Cardinality({k \in 1..Len(directions) : directions[k] = d})

\* the cells a mask must hold when capture lines are seen in directions ds only
LegalIn(b, player, ds) ==
    {i \in 0..63 : b[i] = Empty /\ \E d \in ds : CaptureLine(b, player, i, d)}

C16_CacheFresh ==
    current_legal_moves.some
        => current_legal_moves = Some(Board_legal_moves(discs, turn).val)

\* a computed cache, still there after a refused move of the second player
C16_Witness ==
    /\ current_legal_moves.some
    /\ current_legal_moves.val # {}
    /\ nmoves >= 1
    /\ op.name = "make_turn"
    /\ ret.kind = "Err"
    /\ ret.val = IllegalMove

\* C18: a make_turn that returns IllegalMove leaves board, turn and cache
\* (still Some of the same mask) as they were, and render changes none of
\* them either.
C18_RefusalKeepsCache ==
    [][ /\ (op'.name = "make_turn" /\ ret'.kind = "Err" /\ ret'.val = IllegalMove)
           => ( /\ current_legal_moves.some
                /\ UNCHANGED <<discs, turn, current_legal_moves>> )
        /\ op'.name = "render"
           => UNCHANGED <<discs, turn, current_legal_moves>> ]_vars

\* a board rendered with its computed mask, which is still in the cache
C18_Witness ==
    /\ op.name = "render"
    /\ ret.kind = "Ok"
    /\ nmoves >= 1
    /\ current_legal_moves.some
    /\ \E i \in current_legal_moves.val : ret.val.cells[i] = "*"

\* C20: with the cache computed, make_turn on a pair with a component >= 8
\* returns Err(IllegalMove), without a panic and without changing the state.
C20_OutOfRangeRefused ==
    [][ ( /\ current_legal_moves.some
          /\ op'.name = "make_turn"
          /\ op'.arg \notin InRange )
        => ( /\ ret'.kind = "Err"
             /\ ret'.val = IllegalMove
             /\ UNCHANGED <<discs, turn, current_legal_moves>> ) ]_vars


Count(b, d) == Cardinality({i \in 0..63 : b[i] = d})

\* C17: an accepted make_turn writes a cell that was Empty, so the mover's
\* count of discs grows by one and the opponent's count stays.
C17_WritesEmptyCell ==
    [][ (op'.name = "make_turn" /\ ret'.kind = "Ok")
        => ( /\ discs[op'.arg[2] * 8 + op'.arg[1]] = Empty
             /\ Count(discs', turn) = Count(discs, turn) + 1
             /\ Count(discs', Opponent(turn)) = Count(discs, Opponent(turn))
             /\ Count(discs', White) + Count(discs', Black)
                   = Count(discs, White) + Count(discs, Black) + 1 ) ]_vars


\* C19: every game ends: no (board, turn) pair comes back after an accepted
\* move, so that the accepted moves are at most 60 and a board with an empty
\* mask is reached in the end.
C19_NoStateRevisited ==
    [][ (op'.name = "make_turn" /\ ret'.kind = "Ok")
        => <<discs', turn'>> \notin seen ]_vars

====
